---- MODULE Spec2Model ----
(***************************************************************************)
(* The notary contract (contracts/notary/src/lib.rs, types.rs) as a state  *)
(* machine.  The persisted state is the contract's instance storage (the   *)
(* keys ADMIN and STATE); every public entry point is one atomic step that *)
(* reads STATE, runs the guards of the code in the code's order, and       *)
(* either returns an error without writing or writes STATE back and        *)
(* publishes its event.                                                    *)
(*                                                                         *)
(* For an entry point f, f_error is the value f returns ("Ok" or the       *)
(* NotaryError), f_state the NotaryState it writes when it returns Ok,     *)
(* f_events what it publishes, and the action f the step of the store.     *)
(* A call that returns an error, and a read, leave the store as it is.     *)
(*                                                                         *)
(* Not modelled: the payload fields no guard of the contract reads         *)
(* (title, metadata, signature_data, claim_reference, claim_value,         *)
(* issued_at, Signature.timestamp).                                        *)
(***************************************************************************)
EXTENDS Integers, Sequences, FiniteSets, TLC

VARIABLES storage, now

vars == <<storage, now>>

(***************************************************************************)
(* Bounds of the model.                                                    *)
(***************************************************************************)
\* Most records (versions, signatures, authorities, claims, settings) the
\* store holds under Spec, under SpecDocuments and under SpecRegistry.
MaxRecords == 2

MaxDocumentRecords == 4

MaxRegistryRecords == 4

\* Largest ledger timestamp.
MaxTime == 1

(***************************************************************************)
(* Values.                                                                 *)
(***************************************************************************)
\* env.current_contract_address(): the address of the contract itself,
\* the same in every call.
current_contract_address == "contract"

Address == {current_contract_address, "alice", "bob"}

Hash == {"h1", "h2"}

VersionHash == {"v1"}

\* BytesN::from_array(&env, &[0; 32])
ZeroHash == "0x00"

DocumentStatus == {"Pending", "Active", "Revoked", "Expired"}

VersionStatus == {"Draft", "PendingApproval", "Approved", "Rejected", "Superseded"}

ConfigKey == {"MAX_SIGN", "MIN_SIGN"}

ConfigValue == {"5", "7"}

Timestamp == 0..(MaxTime + 1)

\* The Vec<Address> arguments given to create_document: no signer, the
\* contract alone, the contract and an account, two accounts.
SignerLists ==
    {<<>>,
     <<current_contract_address>>,
     <<current_contract_address, "alice">>,
     <<"alice", "bob">>}

Signature == [signer : Address]

IdentityClaim == [authority : {"alice"}, claim_type : {"ID"}, expires_at : Timestamp]

(***************************************************************************)
(* Soroban containers.  Map<K, V> is a function on the set of present      *)
(* keys; Vec<T> is a sequence.                                             *)
(***************************************************************************)
MapNew == <<>>

MapSet(m, k, v) == (k :> v) @@ m

contains_key(m, k) == k \in DOMAIN m

\* Map::get(k).unwrap_or(d)
GetOr(m, k, d) == IF k \in DOMAIN m THEN m[k] ELSE d

push_back(v, x) == Append(v, x)

\* Vec::contains
contains(v, x) == \E i \in 1..Len(v) : v[i] = x

\* Vec::set(i, x) with the code's 0-based index i
VecSet(v, i, x) == [v EXCEPT ![i + 1] = x]

\* Vec::get(i).unwrap() with the code's 0-based index i
VecGet(v, i) == v[i + 1]

(***************************************************************************)
(* Instance storage.                                                       *)
(***************************************************************************)
has(key) == key \in DOMAIN storage

\* env.storage().instance().get(&STATE).unwrap(), where it does not panic
State == storage["STATE"]

\* .get(&STATE).unwrap() on a store that was never initialized: the host
\* aborts the call
HostPanic == "HostPanic"

\* an event: its topic, the NotaryEvent variant and the variant's fields
Event(topic, name, data) == [topic |-> topic, name |-> name, data |-> data]

\* a store written before the expiry guard of add_claim has returned
StorageAfter_expired(r, s) ==
    IF r \in {"Ok", "ExpiredClaim"} THEN ("STATE" :> s) @@ storage ELSE storage

\* The store after a call that returns r: Ok has written s
\* (env.storage().instance().set(&STATE, &state)); an error, or a panic,
\* which the host rolls back, has written nothing.
StorageAfter(r, s) == IF r = "Ok" THEN ("STATE" :> s) @@ storage ELSE storage

(***************************************************************************)
(* The size of the store, which the bounds cap.                            *)
(***************************************************************************)
RECURSIVE SumOver(_, _)
SumOver(f, S) ==
    IF S = {} THEN 0
    ELSE LET x == CHOOSE y \in S : TRUE
         IN  f[x] + SumOver(f, S \ {x})

DocumentRecords(d) ==
    Len(d.versions)
    + SumOver([i \in 1..Len(d.versions) |-> Len(d.versions[i].signatures)],
              1..Len(d.versions))

StoredRecords(s) ==
    SumOver([h \in DOMAIN s.documents |-> DocumentRecords(s.documents[h])],
            DOMAIN s.documents)
    + Len(s.authorities)
    + SumOver([u \in DOMAIN s.claims |-> Len(s.claims[u])], DOMAIN s.claims)
    + Cardinality(DOMAIN s.settings)

\* The store holds at most n records.
Within(n) == has("STATE") => StoredRecords(State) <= n

(***************************************************************************)
(* initialize                                                              *)
(***************************************************************************)
NewState(admin) ==
    [admin          |-> admin,
     documents      |-> MapNew,
     user_documents |-> MapNew,
     authorities    |-> <<>>,
     claims         |-> MapNew,
     settings       |-> MapNew]

\* initialize without its guard
initialize_error_unchecked == "Ok"

initialize_error == IF has("ADMIN") THEN "AlreadyExists" ELSE "Ok"

initialize_storage(admin) ==
    IF initialize_error = "Ok"
    THEN ("STATE" :> NewState(admin)) @@ ("ADMIN" :> admin) @@ storage
    ELSE storage

initialize(admin) ==
    /\ storage' = initialize_storage(admin)
    /\ UNCHANGED now

(***************************************************************************)
(* create_document                                                         *)
(***************************************************************************)
RootVersion(hash, signers) ==
    [hash             |-> hash,
     parent_hash      |-> ZeroHash,
     status           |-> "PendingApproval",
     creator          |-> current_contract_address,
     created_at       |-> now,
     updated_at       |-> now,
     signatures       |-> <<>>,
     required_signers |-> signers]

NewDocument(hash, signers) ==
    [hash               |-> hash,
     status             |-> "Pending",
     owner              |-> current_contract_address,
     created_at         |-> now,
     updated_at         |-> now,
     current_version    |-> 0,
     versions           |-> <<RootVersion(hash, signers)>>,
     authorized_signers |-> signers]

\* create_document without the contains_key guard
create_document_error_unchecked(hash) == IF ~has("STATE") THEN HostPanic ELSE "Ok"

create_document_error(hash) ==
    IF ~has("STATE") THEN HostPanic
    ELSE IF contains_key(State.documents, hash) THEN "AlreadyExists"
    ELSE "Ok"

\* create_document that leaves the user_documents index as it is
create_document_state_unindexed(hash, signers) ==
    [State EXCEPT !.documents = MapSet(@, hash, NewDocument(hash, signers))]

create_document_state(hash, signers) ==
    LET user_docs == GetOr(State.user_documents, current_contract_address, <<>>)
    IN  [State EXCEPT
           !.documents = MapSet(@, hash, NewDocument(hash, signers)),
           !.user_documents =
               MapSet(@, current_contract_address, push_back(user_docs, hash))]

create_document_events(hash) ==
    IF create_document_error(hash) = "Ok"
    THEN <<Event("DOCS", "DocumentCreated", <<hash>>)>>
    ELSE <<>>

create_document_storage(hash, signers) ==
    StorageAfter(create_document_error(hash),
                 create_document_state(hash, signers))

create_document(hash, signers) ==
    /\ storage' = create_document_storage(hash, signers)
    /\ UNCHANGED now

(***************************************************************************)
(* add_version                                                             *)
(***************************************************************************)
is_authorized(document, address) ==
    address = document.owner \/ contains(document.authorized_signers, address)

add_version_error(document_hash) ==
    IF ~has("STATE") THEN HostPanic
    ELSE IF ~contains_key(State.documents, document_hash) THEN "NotFound"
    ELSE IF ~is_authorized(State.documents[document_hash], current_contract_address)
    THEN "Unauthorized"
    ELSE "Ok"

\* a new version that takes no snapshot of the signer list
NewVersion_unlisted(document, document_hash, version_hash) ==
    [hash             |-> version_hash,
     parent_hash      |-> document_hash,
     status           |-> "Draft",
     creator          |-> current_contract_address,
     created_at       |-> now,
     updated_at       |-> now,
     signatures       |-> <<>>,
     required_signers |-> <<>>]

NewVersion(document, document_hash, version_hash) ==
    [hash             |-> version_hash,
     parent_hash      |-> document_hash,
     status           |-> "Draft",
     creator          |-> current_contract_address,
     created_at       |-> now,
     updated_at       |-> now,
     signatures       |-> <<>>,
     required_signers |-> document.authorized_signers]

\* add_version leaving current_version where it was
add_version_state_stale(document_hash, version_hash) ==
    LET document == State.documents[document_hash]
        versions == push_back(document.versions,
                              NewVersion(document, document_hash, version_hash))
    IN  [State EXCEPT !.documents = MapSet(@, document_hash,
            [document EXCEPT !.versions = versions,
                             !.updated_at = now])]

add_version_state(document_hash, version_hash) ==
    LET document == State.documents[document_hash]
        versions == push_back(document.versions,
                              NewVersion(document, document_hash, version_hash))
    IN  [State EXCEPT !.documents = MapSet(@, document_hash,
            [document EXCEPT !.versions = versions,
                             !.current_version = Len(versions) - 1,
                             !.updated_at = now])]

add_version_events(document_hash, version_hash) ==
    IF add_version_error(document_hash) = "Ok"
    THEN <<Event("DOCS", "VersionAdded", <<version_hash>>)>>
    ELSE <<>>

add_version_storage(document_hash, version_hash) ==
    StorageAfter(add_version_error(document_hash),
                 add_version_state(document_hash, version_hash))

add_version(document_hash, version_hash) ==
    /\ storage' = add_version_storage(document_hash, version_hash)
    /\ UNCHANGED now

(***************************************************************************)
(* sign_document                                                           *)
(***************************************************************************)
CurrentVersion(document) == VecGet(document.versions, document.current_version)

\* the duplicate check looking at the latest signature only
already_signed_latest(version, signature) ==
    /\ Len(version.signatures) > 0
    /\ version.signatures[Len(version.signatures)].signer = signature.signer

\* current_version.signatures.iter().any(|s| s.signer == signature.signer)
already_signed(version, signature) ==
    \E i \in 1..Len(version.signatures) :
        version.signatures[i].signer = signature.signer

\* sign_document without the authorized_signers guard
sign_document_error_unguarded(document_hash, signature) ==
    IF ~has("STATE") THEN HostPanic
    ELSE IF ~contains_key(State.documents, document_hash) THEN "NotFound"
    ELSE IF already_signed(CurrentVersion(State.documents[document_hash]), signature)
    THEN "AlreadyExists"
    ELSE "Ok"

sign_document_error(document_hash, signature) ==
    IF ~has("STATE") THEN HostPanic
    ELSE IF ~contains_key(State.documents, document_hash) THEN "NotFound"
    ELSE IF ~contains(State.documents[document_hash].authorized_signers,
                      current_contract_address)
    THEN "Unauthorized"
    ELSE IF already_signed(CurrentVersion(State.documents[document_hash]), signature)
    THEN "AlreadyExists"
    ELSE "Ok"

\* signatures.len() == required_signers.len()
quorum(version) == Len(version.signatures) = Len(version.required_signers)

\* sign_document setting the document Active outside the quorum test
sign_document_state_active(document_hash, signature) ==
    LET document == State.documents[document_hash]
        signed   == [CurrentVersion(document) EXCEPT
                        !.signatures = push_back(@, signature),
                        !.updated_at = now]
        version  == IF quorum(signed)
                    THEN [signed EXCEPT !.status = "Approved"]
                    ELSE signed
    IN  [State EXCEPT !.documents = MapSet(@, document_hash,
            [document EXCEPT
                !.status = "Active",
                !.versions = VecSet(@, document.current_version, version),
                !.updated_at = now])]

sign_document_state(document_hash, signature) ==
    LET document == State.documents[document_hash]
        signed   == [CurrentVersion(document) EXCEPT
                        !.signatures = push_back(@, signature),
                        !.updated_at = now]
        version  == IF quorum(signed)
                    THEN [signed EXCEPT !.status = "Approved"]
                    ELSE signed
    IN  [State EXCEPT !.documents = MapSet(@, document_hash,
            [document EXCEPT
                !.status = IF quorum(signed) THEN "Active" ELSE @,
                !.versions = VecSet(@, document.current_version, version),
                !.updated_at = now])]

sign_document_events(document_hash, signature) ==
    IF sign_document_error(document_hash, signature) = "Ok"
    THEN <<Event("DOCS", "DocumentSigned", <<document_hash>>)>>
    ELSE <<>>

sign_document_storage(document_hash, signature) ==
    StorageAfter(sign_document_error(document_hash, signature),
                 sign_document_state(document_hash, signature))

sign_document(document_hash, signature) ==
    /\ storage' = sign_document_storage(document_hash, signature)
    /\ UNCHANGED now

(***************************************************************************)
(* register_authority                                                      *)
(***************************************************************************)
register_authority_error ==
    IF ~has("STATE") THEN HostPanic
    ELSE IF current_contract_address # State.admin THEN "Unauthorized"
    ELSE "Ok"

\* if !state.authorities.contains(&authority)
is_new_authority(authority) == ~contains(State.authorities, authority)

register_authority_state(authority) ==
    IF is_new_authority(authority)
    THEN [State EXCEPT !.authorities = push_back(@, authority)]
    ELSE State

register_authority_events(authority) ==
    IF register_authority_error = "Ok" /\ is_new_authority(authority)
    THEN <<Event("AUTH", "AuthorityAdded", <<authority>>)>>
    ELSE <<>>

register_authority_storage(authority) ==
    StorageAfter(register_authority_error,
                 register_authority_state(authority))

register_authority(authority) ==
    /\ storage' = register_authority_storage(authority)
    /\ UNCHANGED now

(***************************************************************************)
(* add_claim                                                               *)
(***************************************************************************)
add_claim_error(claim) ==
    IF ~has("STATE") THEN HostPanic
    ELSE IF ~contains(State.authorities, current_contract_address)
    THEN "InvalidAuthority"
    ELSE IF claim.expires_at <= now THEN "ExpiredClaim"
    ELSE "Ok"

\* add_claim storing the claim in place of the user's list
add_claim_state_replace(user, claim) ==
    [State EXCEPT !.claims = MapSet(@, user, <<claim>>)]

add_claim_state(user, claim) ==
    LET user_claims == GetOr(State.claims, user, <<>>)
    IN  [State EXCEPT !.claims = MapSet(@, user, push_back(user_claims, claim))]

add_claim_events(user, claim) ==
    IF add_claim_error(claim) = "Ok"
    THEN <<Event("AUTH", "ClaimAdded", <<user>>)>>
    ELSE <<>>

add_claim_storage(user, claim) ==
    StorageAfter(add_claim_error(claim),
                 add_claim_state(user, claim))

add_claim(user, claim) ==
    /\ storage' = add_claim_storage(user, claim)
    /\ UNCHANGED now

(***************************************************************************)
(* verify_document, get_user_documents: reads                              *)
(***************************************************************************)
verify_document_error(document_hash) ==
    IF ~has("STATE") THEN HostPanic
    ELSE IF ~contains_key(State.documents, document_hash) THEN "NotFound"
    ELSE "Ok"

\* the Document returned with Ok
verify_document_value(document_hash) == State.documents[document_hash]

verify_document(document_hash) == UNCHANGED vars

get_user_documents_error(user) == IF ~has("STATE") THEN HostPanic ELSE "Ok"

\* the Vec<BytesN<32>> returned with Ok
get_user_documents_value(user) == GetOr(State.user_documents, user, <<>>)

get_user_documents(user) == UNCHANGED vars

(***************************************************************************)
(* update_status                                                           *)
(***************************************************************************)
update_status_error(document_hash) ==
    IF ~has("STATE") THEN HostPanic
    ELSE IF ~contains_key(State.documents, document_hash) THEN "NotFound"
    ELSE IF current_contract_address # State.documents[document_hash].owner
    THEN "Unauthorized"
    ELSE "Ok"

\* update_status marking the current version Rejected when it revokes
update_status_state_rejects(document_hash, new_status) ==
    LET document == State.documents[document_hash]
        version  == [CurrentVersion(document) EXCEPT !.status = "Rejected"]
    IN  [State EXCEPT !.documents = MapSet(@, document_hash,
            [document EXCEPT
                !.status = new_status,
                !.versions = IF new_status = "Revoked"
                             THEN VecSet(@, document.current_version, version)
                             ELSE @,
                !.updated_at = now])]

update_status_state(document_hash, new_status) ==
    [State EXCEPT !.documents = MapSet(@, document_hash,
        [State.documents[document_hash] EXCEPT !.status = new_status,
                                               !.updated_at = now])]

update_status_events(document_hash, new_status) ==
    IF update_status_error(document_hash) = "Ok"
    THEN <<Event("DOCS", "StatusChanged", <<document_hash, new_status>>)>>
    ELSE <<>>

update_status_storage(document_hash, new_status) ==
    StorageAfter(update_status_error(document_hash),
                 update_status_state(document_hash, new_status))

update_status(document_hash, new_status) ==
    /\ storage' = update_status_storage(document_hash, new_status)
    /\ UNCHANGED now

(***************************************************************************)
(* get_config, update_config                                               *)
(***************************************************************************)
get_config_error(key) ==
    IF ~has("STATE") THEN HostPanic
    ELSE IF ~contains_key(State.settings, key) THEN "NotFound"
    ELSE "Ok"

\* the String returned with Ok
get_config_value(key) == State.settings[key]

get_config(key) == UNCHANGED vars

update_config_error ==
    IF ~has("STATE") THEN HostPanic
    ELSE IF current_contract_address # State.admin THEN "Unauthorized"
    ELSE "Ok"

\* update_config replacing the settings map by the one pair
update_config_state_reset(key, value) == [State EXCEPT !.settings = (key :> value)]

update_config_state(key, value) == [State EXCEPT !.settings = MapSet(@, key, value)]

update_config_storage(key, value) ==
    StorageAfter(update_config_error,
                 update_config_state(key, value))

update_config(key, value) ==
    /\ storage' = update_config_storage(key, value)
    /\ UNCHANGED now

(***************************************************************************)
(* The ledger closes and the timestamp the next calls see moves on.        *)
(***************************************************************************)
AdvanceLedger ==
    /\ now < MaxTime
    /\ now' = now + 1
    /\ UNCHANGED storage

(***************************************************************************)
(* Specifications: a freshly registered contract, then any sequence of     *)
(* calls with any arguments.  No entry point reads the invoking account    *)
(* (every identity check reads env.current_contract_address()), so a call  *)
(* has no invoker input.  Spec runs every entry point within one ledger;  *)
(* SpecDocuments runs the document and signature entry points to a larger  *)
(* store; SpecRegistry runs the authority, claim and configuration entry   *)
(* points to a larger store and over several ledgers.                      *)
(***************************************************************************)
Init ==
    /\ storage = MapNew
    /\ now = 0

Initialize == \E admin \in Address : initialize(admin)

CreateDocument ==
    \E hash \in Hash, signers \in SignerLists : create_document(hash, signers)

AddVersion ==
    \E document_hash \in Hash, version_hash \in VersionHash :
        add_version(document_hash, version_hash)

SignDocument ==
    \E document_hash \in Hash, signature \in Signature :
        sign_document(document_hash, signature)

RegisterAuthority == \E authority \in Address : register_authority(authority)

AddClaim == \E user \in Address, claim \in IdentityClaim : add_claim(user, claim)

VerifyDocument == \E document_hash \in Hash : verify_document(document_hash)

GetUserDocuments == \E user \in Address : get_user_documents(user)

UpdateStatus ==
    \E document_hash \in Hash, new_status \in DocumentStatus :
        update_status(document_hash, new_status)

GetConfig == \E key \in ConfigKey : get_config(key)

UpdateConfig ==
    \E key \in ConfigKey, value \in ConfigValue : update_config(key, value)

Next ==
    \/ Initialize
    \/ CreateDocument /\ Within(MaxRecords)'
    \/ AddVersion /\ Within(MaxRecords)'
    \/ SignDocument /\ Within(MaxRecords)'
    \/ RegisterAuthority /\ Within(MaxRecords)'
    \/ AddClaim /\ Within(MaxRecords)'
    \/ VerifyDocument
    \/ GetUserDocuments
    \/ UpdateStatus
    \/ GetConfig
    \/ UpdateConfig /\ Within(MaxRecords)'

Spec == Init /\ [][Next]_vars

NextDocuments ==
    \/ Initialize
    \/ CreateDocument /\ Within(MaxDocumentRecords)'
    \/ AddVersion /\ Within(MaxDocumentRecords)'
    \/ SignDocument /\ Within(MaxDocumentRecords)'
    \/ VerifyDocument
    \/ GetUserDocuments
    \/ UpdateStatus

SpecDocuments == Init /\ [][NextDocuments]_vars

NextRegistry ==
    \/ Initialize
    \/ RegisterAuthority /\ Within(MaxRegistryRecords)'
    \/ AddClaim /\ Within(MaxRegistryRecords)'
    \/ GetConfig
    \/ UpdateConfig /\ Within(MaxRegistryRecords)'
    \/ AdvanceLedger

SpecRegistry == Init /\ [][NextRegistry]_vars

(***************************************************************************)
(* What the properties below speak of.                                     *)
(***************************************************************************)
Initialized == has("STATE")

\* the documents map, empty before initialize
Documents == IF Initialized THEN State.documents ELSE MapNew

Range(v) == {v[i] : i \in 1..Len(v)}

\* the identities whose signature a version holds
SignersOf(version) == {version.signatures[i].signer : i \in 1..Len(version.signatures)}

\* a list without a repeated entry
Distinct(v) == Cardinality(Range(v)) = Len(v)

(***************************************************************************)
(* C1.  Quorum exactness: on a document created with a list S of n >= 1    *)
(* distinct signers, with no add_version and no update_status since (one   *)
(* version, document still Pending), a successful sign_document by a       *)
(* member of S after which k members of S have signed leaves the version   *)
(* not Approved and the document Pending when k < n, and when k = n sets   *)
(* the version Approved and the document Active in that step, the version  *)
(* then holding exactly n signatures.                                      *)
(***************************************************************************)
C1_QuorumExactness ==
    [][\A h \in Hash, sig \in Signature :
          LET d  == State.documents[h]
              S  == d.authorized_signers
              n  == Len(S)
              d2 == State'.documents[h]
              v2 == d2.versions[1]
              k  == Cardinality(SignersOf(v2) \cap Range(S))
          IN  (/\ Initialized
               /\ h \in DOMAIN State.documents
               /\ Len(d.versions) = 1
               /\ d.status = "Pending"
               /\ n >= 1
               /\ Distinct(S)
               /\ sig.signer \in Range(S)
               /\ sign_document_error(h, sig) = "Ok"
               /\ sign_document(h, sig))
              => /\ k < n => v2.status # "Approved" /\ d2.status = "Pending"
                 /\ k = n => /\ v2.status = "Approved"
                             /\ d2.status = "Active"
                             /\ Len(v2.signatures) = n
      ]_vars

(***************************************************************************)
(* C2.  sign_document returns Unauthorized and leaves the store as it is   *)
(* whenever signature.signer is not in the document's authorized_signers;  *)
(* so the signer of every stored signature is one of its document's        *)
(* authorized_signers.                                                     *)
(***************************************************************************)
C2_SignerAuthorization ==
    \A h \in DOMAIN Documents :
        /\ \A sig \in Signature :
              sig.signer \notin Range(Documents[h].authorized_signers)
              => /\ sign_document_error(h, sig) = "Unauthorized"
                 /\ sign_document_storage(h, sig) = storage
        /\ \A i \in 1..Len(Documents[h].versions) :
              SignersOf(Documents[h].versions[i])
                  \subseteq Range(Documents[h].authorized_signers)

(***************************************************************************)
(* C3.  No double-signing: no identity has two signatures in one version;  *)
(* sign_document with a signer who has signed the current version returns  *)
(* AlreadyExists and leaves the store (so the version's signature count    *)
(* and status and the document's status) as it is.                         *)
(***************************************************************************)
C3_NoDoubleSigning ==
    \A h \in DOMAIN Documents :
        /\ \A i \in 1..Len(Documents[h].versions) :
              LET sigs == Documents[h].versions[i].signatures
              IN  \A j, k \in 1..Len(sigs) : sigs[j].signer = sigs[k].signer => j = k
        /\ \A sig \in Signature :
              sig.signer \in SignersOf(CurrentVersion(Documents[h]))
              => /\ sign_document_error(h, sig) = "AlreadyExists"
                 /\ sign_document_events(h, sig) = <<>>
                 /\ sign_document_storage(h, sig) = storage

\* A second signer is about to sign a version that another has signed, and
\* the one who has signed is refused.
C3_Witness ==
    \E h \in DOMAIN Documents, sig \in Signature :
        /\ Len(CurrentVersion(Documents[h]).signatures) = 2
        /\ sig.signer \in SignersOf(CurrentVersion(Documents[h]))
        /\ sign_document_error(h, sig) = "AlreadyExists"

(***************************************************************************)
(* C4.  A version never holds more signatures than it has required         *)
(* signers, and once it has reached quorum no sign_document on it          *)
(* succeeds.                                                               *)
(***************************************************************************)
C4_NeverPastThreshold ==
    \A h \in DOMAIN Documents :
        /\ \A i \in 1..Len(Documents[h].versions) :
              Len(Documents[h].versions[i].signatures)
                  <= Len(Documents[h].versions[i].required_signers)
        /\ LET v == CurrentVersion(Documents[h])
           IN  Len(v.signatures) = Len(v.required_signers)
               => \A sig \in Signature : sign_document_error(h, sig) # "Ok"

(***************************************************************************)
(* C5.  Uniqueness: create_document on a hash that already keys a document *)
(* returns AlreadyExists, publishes nothing and leaves the whole store as  *)
(* it is, whatever signers it is given; the document under a key carries   *)
(* that key as its hash.                                                   *)
(***************************************************************************)
C5_Uniqueness ==
    \A h \in DOMAIN Documents :
        /\ Documents[h].hash = h
        /\ \A signers \in SignerLists :
              /\ create_document_error(h) = "AlreadyExists"
              /\ create_document_events(h) = <<>>
              /\ create_document_storage(h, signers) = storage

\* A document that has been signed, and a second creation under its hash
\* with another signer list.
C5_Witness ==
    \E h \in DOMAIN Documents, signers \in SignerLists :
        /\ Len(Documents[h].versions[1].signatures) > 0
        /\ signers # Documents[h].authorized_signers
        /\ create_document_error(h) = "AlreadyExists"

(***************************************************************************)
(* C6.  Admin gating: once initialized, register_authority and             *)
(* update_config return Ok when the admin invokes them, and return         *)
(* Unauthorized and leave the store as it is when any other identity       *)
(* invokes them.                                                           *)
(***************************************************************************)
C6_AdminGating ==
    Initialized =>
        \A invoker \in Address :
            /\ invoker = State.admin
               => /\ register_authority_error = "Ok"
                  /\ update_config_error = "Ok"
            /\ invoker # State.admin
               => /\ register_authority_error = "Unauthorized"
                  /\ update_config_error = "Unauthorized"
                  /\ \A authority \in Address :
                        register_authority_storage(authority) = storage
                  /\ \A key \in ConfigKey, value \in ConfigValue :
                        update_config_storage(key, value) = storage

(***************************************************************************)
(* C7.  Authority gating: add_claim invoked by an identity outside the     *)
(* authorities registry returns InvalidAuthority and leaves the store as   *)
(* it is, whatever the claim's expires_at; invoked by a registered         *)
(* authority with expires_at greater than the current time it returns Ok   *)
(* and appends the claim to the user's claim list.                         *)
(***************************************************************************)
C7_AuthorityGating ==
    Initialized =>
        \A invoker \in Address, user \in Address, claim \in IdentityClaim :
            /\ invoker \notin Range(State.authorities)
               => /\ add_claim_error(claim) = "InvalidAuthority"
                  /\ add_claim_storage(user, claim) = storage
            /\ (invoker \in Range(State.authorities) /\ claim.expires_at > now)
               => /\ add_claim_error(claim) = "Ok"
                  /\ add_claim_state(user, claim).claims[user]
                       = Append(GetOr(State.claims, user, <<>>), claim)

(***************************************************************************)
(* C8.  Claim expiry boundary: for add_claim invoked by a registered       *)
(* authority at ledger time now, a claim with expires_at <= now is         *)
(* rejected with ExpiredClaim and the store is left as it is, and a claim  *)
(* with expires_at = now + 1 is accepted; no stored claim expires at or    *)
(* before the first ledger time.                                           *)
(***************************************************************************)
C8_ExpiryBoundary ==
    Initialized =>
        /\ \A invoker \in Range(State.authorities), user \in Address,
              claim \in IdentityClaim :
              /\ claim.expires_at <= now
                 => /\ add_claim_error(claim) = "ExpiredClaim"
                    /\ add_claim_storage(user, claim) = storage
              /\ claim.expires_at = now + 1 => add_claim_error(claim) = "Ok"
        /\ \A user \in DOMAIN State.claims :
              \A i \in 1..Len(State.claims[user]) :
                  State.claims[user][i].expires_at > 0

(***************************************************************************)
(* C9.  Idempotent authority registration: the authorities registry never  *)
(* holds an identity twice; register_authority invoked by the admin        *)
(* returns Ok, the first time appending the identity and publishing one    *)
(* authority-added event, any later time changing nothing and publishing   *)
(* nothing.                                                                *)
(***************************************************************************)
C9_IdempotentRegistration ==
    Initialized =>
        /\ Distinct(State.authorities)
        /\ \A invoker \in Address, authority \in Address :
              invoker = State.admin
              => /\ register_authority_error = "Ok"
                 /\ authority \in Range(State.authorities)
                    => /\ register_authority_storage(authority) = storage
                       /\ register_authority_events(authority) = <<>>
                 /\ authority \notin Range(State.authorities)
                    => /\ register_authority_state(authority).authorities
                            = Append(State.authorities, authority)
                       /\ Len(register_authority_events(authority)) = 1
                       /\ register_authority_events(authority)[1].name = "AuthorityAdded"

(***************************************************************************)
(* C10.  initialize is one-time: on a fresh store it returns Ok and        *)
(* writes the given admin with empty documents, user_documents,            *)
(* authorities, claims and settings; on an initialized store it returns    *)
(* AlreadyExists and leaves the store as it is, whatever admin it is       *)
(* given; and no step of any entry point changes the admin.                *)
(***************************************************************************)
C10_InitializeState ==
    /\ ~has("ADMIN")
       => \A admin \in Address :
             /\ initialize_error = "Ok"
             /\ DOMAIN initialize_storage(admin) = {"ADMIN", "STATE"}
             /\ initialize_storage(admin)["ADMIN"] = admin
             /\ initialize_storage(admin)["STATE"]
                  = [admin |-> admin, documents |-> <<>>, user_documents |-> <<>>,
                     authorities |-> <<>>, claims |-> <<>>, settings |-> <<>>]
    /\ has("ADMIN")
       => /\ Initialized
          /\ State.admin = storage["ADMIN"]
          /\ \A admin \in Address :
                /\ initialize_error = "AlreadyExists"
                /\ initialize_storage(admin) = storage

C10_InitializeOnce ==
    [][/\ C10_InitializeState
       /\ C10_InitializeState'
       /\ has("ADMIN") => has("ADMIN")' /\ storage'["ADMIN"] = storage["ADMIN"]
      ]_vars

\* Documents have been created under one admin, and an initialize naming
\* another admin is refused.
C10_Witness ==
    /\ has("ADMIN")
    /\ State.admin = "alice"
    /\ DOMAIN State.documents = Hash
    /\ initialize_error = "AlreadyExists"
    /\ initialize_storage("bob") = storage

(***************************************************************************)
(* C11.  No partial commit: whenever a writing entry point (initialize,    *)
(* create_document, add_version, sign_document, register_authority,        *)
(* add_claim, update_status, update_config) returns anything but Ok, with  *)
(* any arguments, the store after the call is the store before it and the  *)
(* call publishes no event.  (The reads never write and never publish.)    *)
(***************************************************************************)
C11_NoPartialCommit ==
    /\ initialize_error # "Ok"
       => \A admin \in Address : initialize_storage(admin) = storage
    /\ \A hash \in Hash, signers \in SignerLists :
          create_document_error(hash) # "Ok"
          => /\ create_document_storage(hash, signers) = storage
             /\ create_document_events(hash) = <<>>
    /\ \A document_hash \in Hash, version_hash \in VersionHash :
          add_version_error(document_hash) # "Ok"
          => /\ add_version_storage(document_hash, version_hash) = storage
             /\ add_version_events(document_hash, version_hash) = <<>>
    /\ \A document_hash \in Hash, signature \in Signature :
          sign_document_error(document_hash, signature) # "Ok"
          => /\ sign_document_storage(document_hash, signature) = storage
             /\ sign_document_events(document_hash, signature) = <<>>
    /\ \A authority \in Address :
          register_authority_error # "Ok"
          => /\ register_authority_storage(authority) = storage
             /\ register_authority_events(authority) = <<>>
    /\ \A user \in Address, claim \in IdentityClaim :
          add_claim_error(claim) # "Ok"
          => /\ add_claim_storage(user, claim) = storage
             /\ add_claim_events(user, claim) = <<>>
    /\ \A document_hash \in Hash, new_status \in DocumentStatus :
          update_status_error(document_hash) # "Ok"
          => /\ update_status_storage(document_hash, new_status) = storage
             /\ update_status_events(document_hash, new_status) = <<>>
    /\ \A key \in ConfigKey, value \in ConfigValue :
          update_config_error # "Ok"
          => update_config_storage(key, value) = storage

\* A store on which an expired claim, a second creation, a second
\* initialize and a status update of an absent document are all refused.
C11_Witness ==
    /\ Initialized
    /\ initialize_error = "AlreadyExists"
    /\ \E claim \in IdentityClaim : add_claim_error(claim) = "ExpiredClaim"
    /\ \E h \in Hash : create_document_error(h) = "AlreadyExists"
    /\ \E h \in Hash : update_status_error(h) = "NotFound"

(***************************************************************************)
(* C12.  update_status is owner-only and unguarded: every document has one *)
(* identity, its creator, whose update_status returns Ok whatever the      *)
(* current and the new status and leaves the document with the new status, *)
(* while update_status invoked by any other identity returns Unauthorized  *)
(* and leaves the store as it is; on an absent hash it returns NotFound    *)
(* and leaves the store as it is.                                          *)
(***************************************************************************)
C12_OwnerOnlyStatus ==
    Initialized =>
        /\ \A h \in DOMAIN State.documents :
              \E creator \in Address :
                  \A invoker \in Address, new_status \in DocumentStatus :
                      /\ invoker = creator
                         => /\ update_status_error(h) = "Ok"
                            /\ update_status_state(h, new_status).documents[h].status
                                 = new_status
                      /\ invoker # creator
                         => /\ update_status_error(h) = "Unauthorized"
                            /\ update_status_storage(h, new_status) = storage
        /\ \A h \in Hash \ DOMAIN State.documents, new_status \in DocumentStatus :
              /\ update_status_error(h) = "NotFound"
              /\ update_status_storage(h, new_status) = storage

(***************************************************************************)
(* C13.  Per-user document index: a create_document that returns Ok        *)
(* appends the new hash to the list get_user_documents returns for the     *)
(* identity that invoked it, whichever identity that is; and on an         *)
(* initialized store get_user_documents returns Ok for every identity,     *)
(* with the empty sequence for one that has no entry.                      *)
(***************************************************************************)
C13_UserDocumentIndex ==
    [][Initialized =>
          /\ \A user \in Address :
                /\ get_user_documents_error(user) = "Ok"
                /\ user \notin DOMAIN State.user_documents
                   => get_user_documents_value(user) = <<>>
          /\ \A invoker \in Address, hash \in Hash, signers \in SignerLists :
                (/\ create_document_error(hash) = "Ok"
                 /\ create_document(hash, signers))
                => GetOr(State'.user_documents, invoker, <<>>)
                     = Append(GetOr(State.user_documents, invoker, <<>>), hash)
      ]_vars

(***************************************************************************)
(* C14.  Configuration round trip: after an update_config(k, v) that       *)
(* returns Ok, get_config(k) returns v and every other key reads as        *)
(* before; a step that is not a successful update_config leaves every      *)
(* setting as it is; get_config(k) returns NotFound exactly when k has no  *)
(* setting, and a key has a setting only by a successful update_config on  *)
(* it and keeps one from then on (initialize leaves no key set).           *)
(***************************************************************************)
C14_ConfigRoundTrip ==
    [][/\ Initialized =>
             \A key \in ConfigKey :
                 /\ get_config_error(key) = "NotFound"
                      <=> key \notin DOMAIN State.settings
                 /\ get_config_error(key) \in {"Ok", "NotFound"}
       /\ ~Initialized /\ Initialized' => DOMAIN State'.settings = {}
       /\ Initialized /\ Initialized' =>
             /\ \A key \in ConfigKey, value \in ConfigValue :
                   (/\ update_config_error = "Ok"
                    /\ update_config(key, value))
                   => /\ get_config_error(key)' = "Ok"
                      /\ get_config_value(key)' = value
                      /\ \A other \in ConfigKey \ {key} :
                            /\ get_config_error(other)' = get_config_error(other)
                            /\ other \in DOMAIN State.settings
                               => get_config_value(other)' = get_config_value(other)
             /\ State'.settings # State.settings
                => \E key \in ConfigKey, value \in ConfigValue :
                      /\ update_config_error = "Ok"
                      /\ update_config(key, value)
             /\ DOMAIN State.settings \subseteq DOMAIN State'.settings
      ]_vars

\* Both keys have been set, one of them a second time to another value, and
\* each reads back its latest value.
C14_Witness ==
    /\ Initialized
    /\ update_config_error = "Ok"
    /\ DOMAIN State.settings = ConfigKey
    /\ get_config_error("MAX_SIGN") = "Ok"
    /\ get_config_value("MAX_SIGN") = "7"
    /\ get_config_value("MIN_SIGN") = "5"

(***************************************************************************)
(* What a step does to the versions of the documents.                      *)
(***************************************************************************)
\* the step is a sign_document(h, sig) that returns Ok
SignStep(h, sig) ==
    /\ Initialized
    /\ storage' # storage
    /\ sign_document_error(h, sig) = "Ok"
    /\ sign_document(h, sig)

\* the step changes the status of a version that exists before and after
VersionStatusChanges ==
    /\ Initialized /\ Initialized'
    /\ \E h \in DOMAIN State.documents \cap DOMAIN State'.documents :
          \E i \in 1..Len(State.documents[h].versions) :
              /\ i <= Len(State'.documents[h].versions)
              /\ State'.documents[h].versions[i].status
                   # State.documents[h].versions[i].status

\* A sign_document(h, sig) that returns Ok moves a version only from Draft
\* or PendingApproval to Approved.
SignMovesVersionToApproved(h, sig) ==
    SignStep(h, sig) =>
        \A i \in 1..Len(State.documents[h].versions) :
            LET before == State.documents[h].versions[i].status
                after  == State'.documents[h].versions[i].status
            IN  after # before
                => before \in {"Draft", "PendingApproval"} /\ after = "Approved"

(***************************************************************************)
(* C15 as stated.  The only automatic status transition is the quorum one: *)
(* a sign_document that returns Ok moves a version only from Draft or      *)
(* PendingApproval to Approved and the document only from Pending to       *)
(* Active, never out of Revoked or Expired; and a step that is not a       *)
(* successful sign_document changes no version's status.                   *)
(***************************************************************************)
C15_OnlyQuorumTransition ==
    [][/\ \A h \in Hash, sig \in Signature :
             /\ SignMovesVersionToApproved(h, sig)
             /\ SignStep(h, sig) =>
                   LET before == State.documents[h].status
                       after  == State'.documents[h].status
                   IN  /\ after # before => before = "Pending" /\ after = "Active"
                       /\ before \in {"Revoked", "Expired"} => after = before
       /\ VersionStatusChanges => \E h \in Hash, sig \in Signature : SignStep(h, sig)
      ]_vars

(***************************************************************************)
(* C15 amended.  A sign_document that returns Ok moves a version only from *)
(* Draft or PendingApproval to Approved; it changes the document's status  *)
(* only by setting it Active, from Pending, Revoked or Expired alike, and  *)
(* only when the signature brings the current version's signature count to *)
(* its required-signer count; and a step that is not a successful          *)
(* sign_document changes no version's status.                              *)
(***************************************************************************)
C15_QuorumSetsActive ==
    [][/\ \A h \in Hash, sig \in Signature :
             /\ SignMovesVersionToApproved(h, sig)
             /\ SignStep(h, sig) =>
                   LET before  == State.documents[h].status
                       after   == State'.documents[h].status
                       current == State'.documents[h].versions[
                                      State'.documents[h].current_version + 1]
                       full    == Len(current.signatures) = Len(current.required_signers)
                   IN  /\ after # before
                          => /\ after = "Active"
                             /\ before \in {"Pending", "Revoked", "Expired"}
                             /\ full
                       /\ full => after = "Active" /\ current.status = "Approved"
       /\ VersionStatusChanges => \E h \in Hash, sig \in Signature : SignStep(h, sig)
      ]_vars

\* A revoked document whose current version is one signature short of its
\* required signers: the next signature sets it Active.
C15_Witness ==
    \E h \in DOMAIN Documents, sig \in Signature :
        /\ Documents[h].status = "Revoked"
        /\ Len(CurrentVersion(Documents[h]).signatures) + 1
             = Len(CurrentVersion(Documents[h]).required_signers)
        /\ sign_document_error(h, sig) = "Ok"
        /\ sign_document_state(h, sig).documents[h].status = "Active"
        /\ sign_document_state(h, sig).documents[h].versions[1].status = "Approved"

(***************************************************************************)
(* C16.  sign_document acts on the current version only: a sign_document   *)
(* that returns Ok appends its signature to the version at index           *)
(* current_version and leaves every other version of the document, and     *)
(* every other document, as it is.  So on a document created with a list S *)
(* of distinct signers and given a second version, with the root version   *)
(* unsigned: each member of S who has not signed the second version can    *)
(* sign it, and once exactly the members of S have signed it, it is        *)
(* Approved with |S| signatures, current_version is 1 and the root         *)
(* version is PendingApproval without a signature.                         *)
(***************************************************************************)
C16_CurrentVersionOnly ==
    Initialized =>
        \A h \in DOMAIN State.documents :
            LET d == State.documents[h]
                S == d.authorized_signers
            IN  /\ \A sig \in Signature :
                      sign_document_error(h, sig) = "Ok"
                      => LET after == sign_document_state(h, sig).documents
                             c     == d.current_version + 1
                         IN  /\ DOMAIN after = DOMAIN State.documents
                             /\ \A other \in DOMAIN after \ {h} :
                                   after[other] = State.documents[other]
                             /\ Len(after[h].versions) = Len(d.versions)
                             /\ after[h].versions[c].signatures
                                  = Append(d.versions[c].signatures, sig)
                             /\ \A i \in 1..Len(d.versions) :
                                   i # c => after[h].versions[i] = d.versions[i]
                /\ (/\ Len(d.versions) = 2
                    /\ d.versions[1].signatures = <<>>
                    /\ Len(S) >= 1
                    /\ Distinct(S))
                   => /\ \A member \in Range(S) \ SignersOf(d.versions[2]) :
                            sign_document_error(h, [signer |-> member]) = "Ok"
                      /\ SignersOf(d.versions[2]) = Range(S)
                         => /\ d.versions[2].status = "Approved"
                            /\ Len(d.versions[2].signatures) = Len(S)
                            /\ d.current_version = 1
                            /\ d.versions[1].status = "PendingApproval"

(***************************************************************************)
(* C17.  Version history: every document has at least one version and its  *)
(* current_version is the index of the last one; and across every step     *)
(* every document stays, its versions sequence does not shrink, every      *)
(* version but the current one stays as it is, and the current one keeps   *)
(* its hash, parent, creator, creation time and required signers while     *)
(* its signatures only grow at the end (its status and update time may     *)
(* change).                                                                *)
(***************************************************************************)
\* the signature sequence before is an initial part of the one after
IsPrefix(before, after) ==
    /\ Len(before) <= Len(after)
    /\ \A i \in 1..Len(before) : after[i] = before[i]

VersionsWellFormed(documents) ==
    \A h \in DOMAIN documents :
        /\ Len(documents[h].versions) >= 1
        /\ documents[h].current_version = Len(documents[h].versions) - 1

VersionKept(before, after) ==
    /\ after.hash = before.hash
    /\ after.parent_hash = before.parent_hash
    /\ after.creator = before.creator
    /\ after.created_at = before.created_at
    /\ after.required_signers = before.required_signers
    /\ IsPrefix(before.signatures, after.signatures)

C17_VersionHistory ==
    [][/\ VersionsWellFormed(Documents)
       /\ VersionsWellFormed(Documents')
       /\ \A h \in DOMAIN Documents :
             /\ h \in DOMAIN Documents'
             /\ Len(Documents[h].versions) <= Len(Documents'[h].versions)
             /\ \A i \in 1..Len(Documents[h].versions) :
                   IF i = Documents[h].current_version + 1
                   THEN VersionKept(Documents[h].versions[i], Documents'[h].versions[i])
                   ELSE Documents'[h].versions[i] = Documents[h].versions[i]
      ]_vars

\* A document that has been given a second version, which is current.
C17_Witness ==
    \E h \in DOMAIN Documents :
        /\ Len(Documents[h].versions) = 2
        /\ Documents[h].current_version = 1
        /\ Documents[h].versions[2].parent_hash = h

(***************************************************************************)
(* C18.  add_version returns NotFound for an absent document and           *)
(* Unauthorized, leaving the store as it is, unless the invoker is the     *)
(* document's owner or one of its authorized_signers; invoked by one of    *)
(* those it returns Ok and appends one version with status Draft,          *)
(* parent_hash the document's hash, no signature and required_signers the  *)
(* document's authorized_signers, makes it the current version, and        *)
(* leaves the document's status, owner, authorized_signers and earlier     *)
(* versions as they are.                                                   *)
(***************************************************************************)
C18_AddVersion ==
    Initialized =>
        \A version_hash \in VersionHash :
            /\ \A h \in Hash \ DOMAIN State.documents :
                  /\ add_version_error(h) = "NotFound"
                  /\ add_version_storage(h, version_hash) = storage
            /\ \A h \in DOMAIN State.documents, invoker \in Address :
                  LET d == State.documents[h]
                      n == Len(d.versions)
                      after == add_version_state(h, version_hash).documents[h]
                  IN  IF invoker = d.owner \/ invoker \in Range(d.authorized_signers)
                      THEN /\ add_version_error(h) = "Ok"
                           /\ Len(after.versions) = n + 1
                           /\ after.versions[n + 1].hash = version_hash
                           /\ after.versions[n + 1].status = "Draft"
                           /\ after.versions[n + 1].parent_hash = d.hash
                           /\ after.versions[n + 1].signatures = <<>>
                           /\ after.versions[n + 1].required_signers = d.authorized_signers
                           /\ after.current_version = n
                           /\ after.status = d.status
                           /\ after.owner = d.owner
                           /\ after.authorized_signers = d.authorized_signers
                           /\ \A i \in 1..n : after.versions[i] = d.versions[i]
                      ELSE /\ add_version_error(h) = "Unauthorized"
                           /\ add_version_storage(h, version_hash) = storage

(***************************************************************************)
(* C19.  Approval and signatures are terminal: across every step a version *)
(* that is Approved stays Approved and the signatures a version holds stay *)
(* where they are, the sequence growing only at its end; and no version    *)
(* ever has the status Rejected or Superseded.                             *)
(***************************************************************************)
NeverRejectedOrSuperseded(documents) ==
    \A h \in DOMAIN documents :
        \A i \in 1..Len(documents[h].versions) :
            documents[h].versions[i].status \notin {"Rejected", "Superseded"}

Claims == IF Initialized THEN State.claims ELSE MapNew

C20_ClaimsAppendOnly ==
    [][/\ \A user \in DOMAIN Claims :
             /\ user \in DOMAIN Claims'
             /\ IsPrefix(Claims[user], Claims'[user])
       /\ \A user \in Address, claim \in IdentityClaim :
             (/\ Initialized
              /\ add_claim_error(claim) = "Ok"
              /\ add_claim(user, claim))
             => /\ Claims'[user] = Append(GetOr(Claims, user, <<>>), claim)
                /\ \A other \in Address \ {user} :
                      GetOr(Claims', other, <<>>) = GetOr(Claims, other, <<>>)
      ]_vars

\* A user holds two claims of one type, the first of which has expired.
C20_Witness ==
    \E user \in DOMAIN Claims :
        /\ Len(Claims[user]) = 2
        /\ Claims[user][1].claim_type = Claims[user][2].claim_type
        /\ Claims[user][1].expires_at <= now
        /\ Claims[user][2].expires_at > now

(***************************************************************************)
(* C21.  No step changes a document's authorized_signers or owner, and     *)
(* create_document stores the signer list it is given; so every version's  *)
(* required_signers is its document's authorized_signers.                  *)
(***************************************************************************)
SnapshotsAgree(documents) ==
    \A h \in DOMAIN documents :
        \A i \in 1..Len(documents[h].versions) :
            documents[h].versions[i].required_signers = documents[h].authorized_signers

C21_SignersFrozen ==
    [][/\ SnapshotsAgree(Documents)
       /\ SnapshotsAgree(Documents')
       /\ \A h \in DOMAIN Documents :
             /\ h \in DOMAIN Documents'
             /\ Documents'[h].authorized_signers = Documents[h].authorized_signers
             /\ Documents'[h].owner = Documents[h].owner
       /\ \A hash \in Hash, signers \in SignerLists :
             (/\ Initialized
              /\ create_document_error(hash) = "Ok"
              /\ create_document(hash, signers))
             => Documents'[hash].authorized_signers = signers
      ]_vars

\* A document with signers that has been given a second version.
C21_Witness ==
    \E h \in DOMAIN Documents :
        /\ Len(Documents[h].authorized_signers) = 2
        /\ Len(Documents[h].versions) = 2
        /\ Documents[h].versions[2].required_signers = Documents[h].authorized_signers

(***************************************************************************)
(* C22.  A document created with an empty signer list can never be signed: *)
(* every sign_document on it returns Unauthorized and leaves the store as  *)
(* it is, so its versions hold no signature and none is Approved; and its  *)
(* status leaves Pending only by an update_status that returns Ok.         *)
(***************************************************************************)
C22_EmptySignerList ==
    [][\A h \in DOMAIN Documents :
          Documents[h].authorized_signers = <<>>
          => /\ \A sig \in Signature :
                   /\ sign_document_error(h, sig) = "Unauthorized"
                   /\ sign_document_storage(h, sig) = storage
             /\ \A i \in 1..Len(Documents[h].versions) :
                   /\ Documents[h].versions[i].signatures = <<>>
                   /\ Documents[h].versions[i].status # "Approved"
             /\ (Documents[h].status = "Pending" /\ Documents'[h].status # "Pending")
                => \E new_status \in DocumentStatus :
                      /\ update_status_error(h) = "Ok"
                      /\ update_status(h, new_status)
      ]_vars

\* A document without signers has a second version and has left Pending,
\* and every signature on it is refused.
C22_Witness ==
    \E h \in DOMAIN Documents :
        /\ Documents[h].authorized_signers = <<>>
        /\ Len(Documents[h].versions) = 2
        /\ Documents[h].status = "Active"
        /\ \A sig \in Signature : sign_document_error(h, sig) = "Unauthorized"

(***************************************************************************)
(* C23.  The user_documents index agrees with the documents map: every     *)
(* hash listed under a user keys a document whose owner is that user,      *)
(* every document's hash is listed exactly once under its owner and under  *)
(* no other user, no list holds a hash twice, and every document's key is  *)
(* its hash field and the hash of its root version, whose parent_hash is   *)
(* the all-zero hash.                                                      *)
(***************************************************************************)
UserDocuments == IF Initialized THEN State.user_documents ELSE MapNew

\* how many times x occurs in the list v
Occurrences(v, x) == Cardinality({i \in 1..Len(v) : v[i] = x})

C23_IndexConsistent ==
    /\ \A u \in DOMAIN UserDocuments :
          /\ Distinct(UserDocuments[u])
          /\ \A h \in Range(UserDocuments[u]) :
                /\ h \in DOMAIN Documents
                /\ Documents[h].owner = u
    /\ \A h \in DOMAIN Documents :
          /\ Documents[h].owner \in DOMAIN UserDocuments
          /\ Occurrences(UserDocuments[Documents[h].owner], h) = 1
          /\ \A u \in DOMAIN UserDocuments \ {Documents[h].owner} :
                Occurrences(UserDocuments[u], h) = 0
          /\ Documents[h].hash = h
          /\ Documents[h].versions[1].hash = h
          /\ Documents[h].versions[1].parent_hash = ZeroHash

\* Two documents, both listed, one of them with a second version.
C23_Witness ==
    /\ DOMAIN Documents = Hash
    /\ \E u \in DOMAIN UserDocuments : Len(UserDocuments[u]) = 2
    /\ \E h \in DOMAIN Documents : Len(Documents[h].versions) = 2

====
